---- MODULE Spec2Model ----
(***************************************************************************)
(* A model of mailcertificado/api.py: the MailCertificado client.  Every   *)
(* public method is one action; the instance keeps nothing between calls   *)
(* but the fields set by __init__.                                         *)
(*                                                                         *)
(* Python values that may be of several types in one place (None or a      *)
(* string, a string or an exception) are tagged records, field t naming    *)
(* the type.  A string is a sequence of pieces: a literal of the source is *)
(* one piece, data that the code inspects (phone numbers, file names) is   *)
(* one piece per character; concatenation and %-formatting are \o.         *)
(* Base64 text is a sequence of sextet values 0..63, with 64 for '='.      *)
(***************************************************************************)
EXTENDS Integers, Sequences, FiniteSets, TLC

VARIABLES self, pc, op, args, env, outcome, events, buffers

vars == <<self, pc, op, args, env, outcome, events, buffers>>

----------------------------------------------------------------------------
(* Bounds of the inputs.                                                   *)

MaxAttachments == 2
MaxPrefix == 2

----------------------------------------------------------------------------
(* Python values.                                                          *)

PyNone == [t |-> "NoneType"]
PyStr(pieces) == [t |-> "str", v |-> pieces]
Lit(s) == PyStr(<<s>>)
PyInt(n) == [t |-> "int", v |-> n]
PyBool(b) == [t |-> "bool", v |-> b]
PyList(items) == [t |-> "list", v |-> items]
PyDict(items) == [t |-> "dict", v |-> items]

IsNone(x) == x.t = "NoneType"
IsStr(x) == x.t = "str"

\* str(x) and '%s' % x, for the values the code formats: a string is itself,
\* None is the text 'None'.
str(x) == IF IsNone(x) THEN <<"N", "o", "n", "e">> ELSE x.v

\* The outcome of a call: a returned value or a raised exception.
Return(v) == [kind |-> "return", value |-> v]
Raise(e) == [kind |-> "raise", exc |-> e]

MailCertificadoException(code, description) ==
    [t |-> "MailCertificadoException", code |-> code,
     description |-> description]

TypeError == [t |-> "TypeError"]
Base64Error == [t |-> "binascii.Error"]
PdfReadError == [t |-> "PdfReadError"]
NumberParseException == [t |-> "NumberParseException"]
TransportError == [t |-> "URLError"]
WebFault(actor, string) ==
    [t |-> "WebFault", fault |-> [faultactor |-> actor, faultstring |-> string]]

HasFault(x) == x.t = "WebFault"

\* MailCertificado.exception: what it raises for its argument.
exception(e) ==
    IF IsStr(e) /\ e = Lit("unknown")
    THEN MailCertificadoException(PyInt(0), Lit("Unknown error"))
    ELSE IF HasFault(e)
         THEN MailCertificadoException(e.fault.faultactor, e.fault.faultstring)
         ELSE MailCertificadoException(PyInt(0), e)

----------------------------------------------------------------------------
(* valid_mobile.                                                           *)

Digits == {"0", "1", "2", "3", "4", "5", "6", "7", "8", "9"}

MobileLen == 9

\* mobile[-9:]: the last nine characters, the whole string when shorter.
\* (MobileSuffixWhole: the slice forgotten.)
MobileSuffixWhole(s) == s
MobileSuffix(s) ==
    IF Len(s) <= MobileLen THEN s ELSE SubSeq(s, Len(s) - MobileLen + 1, Len(s))

\* re.compile('^[67][0-9]{8}$').match(s): anchored at the start; $ matches at
\* the end of the string and before a newline that ends it.
MobileReMatch(s) ==
    /\ Len(s) >= 9
    /\ s[1] \in {"6", "7"}
    /\ \A i \in 2..9 : s[i] \in Digits
    /\ \/ Len(s) = 9
       \/ Len(s) = 10 /\ s[10] = "\n"

\* valid_mobile(mobile): slicing None raises TypeError.
valid_mobile(mobile) ==
    IF IsNone(mobile) THEN Raise(TypeError)
    ELSE Return(PyBool(MobileReMatch(MobileSuffix(mobile.v))))

----------------------------------------------------------------------------
(* mimetypes.guess_type, base64 and PyPDF2, as build_attachments uses them. *)

\* The index of the last '.' of a name, 0 when it has none.
LastDot(name) ==
    LET dots == {i \in 1..Len(name) : name[i] = "."}
    IN IF dots = {} THEN 0 ELSE CHOOSE i \in dots : \A j \in dots : j <= i

\* splitext(name)[1]: from the last dot on, unless only dots precede it.
splitext(name) ==
    LET d == LastDot(name)
    IN IF d > 0 /\ \E i \in 1..(d - 1) : name[i] # "."
       THEN SubSeq(name, d, Len(name))
       ELSE <<>>

lower(ext) ==
    [i \in 1..Len(ext) |->
        CASE ext[i] = "P" -> "p"
          [] ext[i] = "D" -> "d"
          [] ext[i] = "F" -> "f"
          [] OTHER -> ext[i]]

\* types_map, the entries the names of the model reach.
types_map(ext) ==
    CASE ext = <<".", "p", "d", "f">> -> Lit("application/pdf")
      [] ext = <<".", "t", "x", "t">> -> Lit("text/plain")
      [] OTHER -> PyNone

\* mimetypes.guess_type(name)[0]: the extension as written, then lowercased.
guess_type(name) ==
    LET ext == splitext(name)
    IN IF ~IsNone(types_map(ext)) THEN types_map(ext) ELSE types_map(lower(ext))

Pad == 64

\* base64.b64encode: three bytes to four sextets, '=' filling the last group.
RECURSIVE b64encode(_)
b64encode(b) ==
    IF Len(b) = 0 THEN <<>>
    ELSE IF Len(b) = 1
    THEN <<b[1] \div 4, (b[1] % 4) * 16, Pad, Pad>>
    ELSE IF Len(b) = 2
    THEN <<b[1] \div 4, (b[1] % 4) * 16 + b[2] \div 16, (b[2] % 16) * 4, Pad>>
    ELSE <<b[1] \div 4, (b[1] % 4) * 16 + b[2] \div 16,
           (b[2] % 16) * 4 + b[3] \div 64, b[3] % 64>>
         \o b64encode(SubSeq(b, 4, Len(b)))

\* base64.b64decode raises (binascii.Error, TypeError under Python 2) on text
\* whose length is no multiple of four.  The texts of the model carry '='
\* only at the end of the last group.
b64decodable(text) == Len(text) % 4 = 0

RECURSIVE b64decode(_)
b64decode(text) ==
    IF Len(text) = 0 THEN <<>>
    ELSE LET q == SubSeq(text, 1, 4)
             rest == b64decode(SubSeq(text, 5, Len(text)))
         IN IF q[3] = Pad
            THEN <<q[1] * 4 + q[2] \div 16>> \o rest
            ELSE IF q[4] = Pad
            THEN <<q[1] * 4 + q[2] \div 16, (q[2] % 16) * 16 + q[3] \div 4>>
                 \o rest
            ELSE <<q[1] * 4 + q[2] \div 16, (q[2] % 16) * 16 + q[3] \div 4,
                   (q[3] % 4) * 64 + q[4]>> \o rest

\* A PDF document, as far as merging goes: the '%' of its header, then one
\* byte per page.  PdfFileMerger.append raises PdfReadError on anything else.
PdfHeader == 37

IsPdf(bytes) == Len(bytes) >= 1 /\ bytes[1] = PdfHeader
PdfPages(bytes) == Tail(bytes)

\* PdfFileMerger.write: the pages of the appended documents, in order.
RECURSIVE MergedPages(_)
MergedPages(docs) ==
    IF docs = <<>> THEN <<>>
    ELSE PdfPages(docs[1]) \o MergedPages(Tail(docs))

PdfWrite(docs) == <<PdfHeader>> \o MergedPages(docs)

----------------------------------------------------------------------------
(* build_attachments.                                                      *)

MergeFile == [name |-> "merge_file", n |-> 0]
TempFile(i) == [name |-> "temp_file", n |-> i]

PdfType == Lit("application/pdf")

\* Lines 141-142: the inferred type of every attachment.
attach_types(attachments) ==
    [i \in 1..Len(attachments) |-> guess_type(attachments[i].name)]

\* Line 139: whether the merge branch is taken.
\* (MergeRequestedAlways: the comparison off by one, > 0.)
MergeRequestedAlways(attachments, merge) == merge /\ Len(attachments) >= 1
MergeRequested(attachments, merge) == merge /\ Len(attachments) > 1

\* Lines 143-144: one inferred type, and it is application/pdf.
\* (MergeAllowedUniform: the second conjunct dropped.)
MergeAllowedUniform(attachments) ==
    LET types == attach_types(attachments)
    IN Cardinality({types[i] : i \in 1..Len(types)}) = 1

MergeAllowed(attachments) ==
    LET types == attach_types(attachments)
    IN Cardinality({types[i] : i \in 1..Len(types)}) = 1 /\ types[1] = PdfType

\* Lines 152-155 for one attachment: the document appended, or what
\* b64decode or PdfFileMerger.append raises.
AppendStep(attachment) ==
    IF ~b64decodable(attachment.data) THEN Raise(Base64Error)
    ELSE IF ~IsPdf(b64decode(attachment.data)) THEN Raise(PdfReadError)
    ELSE Return(b64decode(attachment.data))

\* The first attachment whose append raises, 0 when none does.
FirstAppendFailure(attachments) ==
    LET bad == {i \in 1..Len(attachments) :
                    AppendStep(attachments[i]).kind = "raise"}
    IN IF bad = {} THEN 0 ELSE CHOOSE i \in bad : \A j \in bad : i <= j

\* Line 149: the merged attachment takes the first attachment's name.
\* (merge_name_last: the name of attachments[-1] instead.)
merge_name_last(attachments) == attachments[Len(attachments)].name
merge_name(attachments) == attachments[1].name

\* Lines 156-160: the list that replaces the input after a merge.
Merged(attachments) ==
    LET docs == [i \in 1..Len(attachments) |-> AppendStep(attachments[i]).value]
    IN <<[name |-> merge_name(attachments),
          data |-> b64encode(PdfWrite(docs))]>>

\* The temporary files of lines 147-162 when the call has ended, without the
\* merge branch (none), with the append of attachment k raising (k > 0), or
\* with the merge done (k = 0).  The code closes merge_file, and only on the
\* path that reaches line 162; it closes no temp_file.  A file never closed
\* is closed by the runtime when nothing refers to it any more: at once under
\* reference counting, at no known time otherwise.  While a raised exception
\* travels, its traceback holds the frame, and the frame holds merge_file and
\* the temp_file of the iteration that raised.
MergeBuffers(attachments, k, runtime) ==
    LET n == IF k = 0 THEN Len(attachments) ELSE k
        temps == {TempFile(i) : i \in 1..n}
        held == IF k = 0 THEN {} ELSE {MergeFile, TempFile(k)}
        closed == IF k = 0 THEN {MergeFile} ELSE {}
        unreferenced == (temps \cup {MergeFile}) \ (held \cup closed)
    IN [acquired |-> temps \cup {MergeFile},
        open |-> IF runtime = "refcount" THEN held
                 ELSE held \cup unreferenced]

NoBuffers == [acquired |-> {}, open |-> {}]

\* Line 177: int(len(attach_data) * 0.75).
\* (attach_size_ceil: rounded up instead of truncated.)
attach_size_ceil(attach_data) == (Len(attach_data) * 3 + 3) \div 4
attach_size(attach_data) == (Len(attach_data) * 3) \div 4

\* Lines 178-183.
attach_dict(attachment) ==
    [name |-> attachment.name,
     type |-> guess_type(attachment.name),
     size |-> attach_size(attachment.data),
     data |-> attachment.data]

\* The list that lines 178-184 build, one record per attachment, in order.
RECURSIVE Records(_)
Records(attachments) ==
    IF attachments = <<>> THEN <<>>
    ELSE <<attach_dict(attachments[1])>> \o Records(Tail(attachments))

CannotGuess(name) ==
    PyStr(<<"Cannot guess mime type for ">> \o name)

\* Lines 164-185: the records of the attachments, or the error of the first
\* one whose type cannot be guessed.
\* (BuildLoopSkip: an unguessable attachment skipped instead of raised on.)
BuildLoopSkip(attachments) ==
    LET good == SelectSeq(attachments,
                          LAMBDA x : ~IsNone(guess_type(x.name)))
    IN Return(PyList(Records(good)))

BuildLoop(attachments) ==
    LET bad == {i \in 1..Len(attachments) :
                    IsNone(guess_type(attachments[i].name))}
        first == CHOOSE i \in bad : \A j \in bad : i <= j
    IN IF bad = {}
       THEN Return(PyList(Records(attachments)))
       ELSE Raise(exception(CannotGuess(attachments[first].name)))

\* build_attachments(attachments, merge): its outcome and its temporary files.
build_attachments(attachments, merge, runtime) ==
    IF MergeRequested(attachments, merge)
    THEN IF ~MergeAllowed(attachments)
         THEN [outcome |-> Raise(exception(
                              Lit("Merge only allowed if all files are pdfs"))),
               buffers |-> NoBuffers]
         ELSE LET k == FirstAppendFailure(attachments)
              IN IF k > 0
                 THEN [outcome |-> Raise(AppendStep(attachments[k]).exc),
                       buffers |-> MergeBuffers(attachments, k, runtime)]
                 ELSE [outcome |-> BuildLoop(Merged(attachments)),
                       buffers |-> MergeBuffers(attachments, 0, runtime)]
    ELSE [outcome |-> BuildLoop(attachments), buffers |-> NoBuffers]

----------------------------------------------------------------------------
(* The gateway operations.  What a call did is its outcome, the remote     *)
(* interactions it made, in order (events), and its temporary files.       *)

Ended(o, ev, buf) == [outcome |-> o, events |-> ev, buffers |-> buf]

\* __init__ (lines 37-44).
Instance(test) ==
    [user |-> Lit("user"), password |-> Lit("secret"),
     url |-> IF test THEN "https://ws.codicert.tk/soap.php?wsdl"
             ELSE "https://ws.codicert.io/soap.php?wsdl",
     location |-> IF test THEN "https://ws.codicert.tk/soap.php"
                  ELSE "https://ws.codicert.io/soap.php"]

\* credentials (lines 50-51).
credentials(inst) == [user |-> inst.user, pass |-> inst.password]

\* connection (lines 57-62): the suds Client reads the WSDL at self.url.
Connect(inst) == [ev |-> "connect", url |-> inst.url]
Call(operation, data) == [ev |-> "call", operation |-> operation, data |-> data]

Truthy(x) == ~IsNone(x) /\ x.v # <<>>

\* ','.join(ids)
RECURSIVE Join(_)
Join(ids) ==
    IF Len(ids) = 0 THEN <<>>
    ELSE IF Len(ids) = 1 THEN <<ids[1]>>
    ELSE <<ids[1], ",">> \o Join(Tail(ids))

\* What the body of the try makes of a result: res.result[0].messageId[0],
\* the joined messageIds, or the name and data of a file.
Extract(how, res) ==
    CASE how = "first" ->
            IF Len(res.ids) = 0 THEN Raise([t |-> "IndexError"])
            ELSE Return(Lit(res.ids[1]))
      [] how = "join" -> Return(PyStr(Join(res.ids)))
      [] how = "file" -> Return(PyDict([name |-> res.name, data |-> res.data]))

\* try: res = connection.service.<operation>(data); if res is None:
\* self.exception(<unknown>); ... except Exception as e: self.exception(e).
\* An exception raised in the try, that of self.exception included, is
\* caught and handed to self.exception.
RemoteCall(response, unknown, how) ==
    CASE response.kind = "none" ->
            Raise(exception(exception(Lit(unknown))))
      [] response.kind = "fault" ->
            Raise(exception(WebFault(response.actor, response.string)))
      [] response.kind = "error" -> Raise(exception(TransportError))
      [] response.kind = "result" ->
            IF Extract(how, response).kind = "raise"
            THEN Raise(exception(Extract(how, response).exc))
            ELSE Extract(how, response)

\* The part the operations share from the connection on: connect, build the
\* payload (fields is everything but the attachments), call.
WithAttachments(fields, built) ==
    IF built.outcome.kind = "return"
    THEN fields @@ [attachments |-> built.outcome.value.v]
    ELSE fields

Gateway(inst, connected, operation, data, built, response, unknown, how) ==
    IF ~connected THEN Ended(Raise(TransportError), <<Connect(inst)>>, NoBuffers)
    ELSE IF built.outcome.kind = "raise"
    THEN Ended(built.outcome, <<Connect(inst)>>, built.buffers)
    ELSE Ended(RemoteCall(response, unknown, how),
               <<Connect(inst), Call(operation, data)>>, built.buffers)

NotBuilt == [outcome |-> Return(PyList(<<>>)), buffers |-> NoBuffers]

InvalidMobile(phone, verb) ==
    PyStr(<<"Mobile phone ">> \o str(phone) \o <<verb>>)

\* send_agreement, lines 214-226: the message of the acceptance check, empty
\* when there is nothing to report; valid_mobile is called whatever
\* accept_phone is.
AcceptCheck(accept_phone) ==
    LET missing == IF IsNone(accept_phone)
                   THEN Lit("Cannot use sms acceptance method without a phone number")
                   ELSE PyStr(<<>>)
        valid == valid_mobile(accept_phone)
    IN IF valid.kind = "raise" THEN valid
       ELSE IF ~valid.value.v
       THEN Return(InvalidMobile(accept_phone,
                                 " does not seem to be a valid number"))
       ELSE Return(missing)

send_agreement(inst, a, e) ==
    LET check == AcceptCheck(a.accept_phone)
        sms == IF Truthy(a.sms_phone) /\ Truthy(a.sms_body)
               THEN [smsPhone |-> a.sms_phone, smsBody |-> a.sms_body]
               ELSE <<>>
        acc == IF a.accept_method = PyInt(1)
               THEN [acceptanceMethod |-> a.accept_method,
                     acceptancePhone |-> a.accept_phone]
               ELSE <<>>
        fields == acc @@ sms @@
                  [userData |-> credentials(inst), to |-> a.to,
                   subject |-> a.subject, body |-> a.body]
    IN IF a.accept_method = PyInt(1) /\ check.kind = "raise"
       THEN Ended(check, <<>>, NoBuffers)
       ELSE IF a.accept_method = PyInt(1) /\ Truthy(check.value)
       THEN Ended(Raise(exception(check.value)), <<>>, NoBuffers)
       ELSE IF ~IsNone(a.sms_phone) /\ ~valid_mobile(a.sms_phone).value.v
       THEN Ended(Raise(exception(InvalidMobile(a.sms_phone,
                      " do not seem to be a valid number"))), <<>>, NoBuffers)
       ELSE LET built == IF e.connected
                          THEN build_attachments(a.attachments, TRUE,
                                                 e.runtime)
                          ELSE NotBuilt
            IN Gateway(inst, e.connected, "sendAgreementWS",
                       WithAttachments(fields, built), built,
                       e.response, "unkown", "first")

\* to[-9:] when to is not empty (lines 277-278).
StripPrefix(to) == IF Truthy(to) THEN PyStr(MobileSuffix(to.v)) ELSE to

send_agreement_sms(inst, a, e) ==
    LET to == StripPrefix(a.to)
        fields == [userData |-> credentials(inst), agreementSms |-> 1,
                   forwardOnError |-> 1, to |-> to,
                   subject |-> a.subject, body |-> a.body]
    IN IF ~IsNone(to) /\ ~valid_mobile(to).value.v
       THEN Ended(Raise(exception(InvalidMobile(to,
                      " do not seem to be a valid number"))), <<>>, NoBuffers)
       ELSE LET built == IF e.connected
                          THEN build_attachments(a.attachments, TRUE,
                                                 e.runtime)
                          ELSE NotBuilt
            IN Gateway(inst, e.connected, "sendAgreementWS",
                       WithAttachments(fields, built), built,
                       e.response, "unkown", "first")

\* str(sms_phone).replace(' ', '') (lines 342-343).
NoSpaces(phone) == PyStr(SelectSeq(str(phone), LAMBDA c : c # " "))

\* Lines 344-350, up to the call of phonenumbers: whether parse and
\* is_valid_number are reached.
SmsCandidate(phone, sms_body) ==
    Truthy(phone) /\ Truthy(sms_body) /\ Len(phone.v) > 8

\* send_mail connects and builds the attachments first; e.es is what
\* is_valid_number(parse(sms_phone, 'ES')) does when it is reached.
send_mail(inst, a, e) ==
    LET built == IF e.connected
                 THEN build_attachments(a.attachments, TRUE, e.runtime)
                 ELSE NotBuilt
        phone == NoSpaces(a.sms_phone)
        candidate == SmsCandidate(phone, a.sms_body)
        sms == IF candidate /\ e.es = "valid" /\ valid_mobile(phone).value.v
               THEN [smsPhone |-> phone, smsBody |-> a.sms_body]
               ELSE <<>>
        fields == sms @@
                  [userData |-> credentials(inst), to |-> a.to,
                   subject |-> a.subject, body |-> a.body]
    IN IF e.connected /\ built.outcome.kind = "return"
          /\ candidate /\ e.es = "NumberParseException"
       THEN Ended(Raise(NumberParseException), <<Connect(inst)>>, built.buffers)
       ELSE Gateway(inst, e.connected, "sendMailWS",
                    WithAttachments(fields, built), built,
                    e.response, "unknown", "join")

get_message(inst, a, e) ==
    Gateway(inst, e.connected, "getMsgWS",
            [userData |-> credentials(inst), messageId |-> a.message_id],
            NotBuilt, e.response, "unkown", "file")

get_message_certificate(inst, a, e) ==
    Gateway(inst, e.connected, "getMsgCertificateWS",
            [userData |-> credentials(inst), messageId |-> a.message_id,
             type |-> a.cert_type],
            NotBuilt, e.response, "unkown", "file")

send_registered_sms(inst, a, e) ==
    Gateway(inst, e.connected, "sendSmsWS",
            [userData |-> credentials(inst), smsPhone |-> a.sms_phone,
             smsBody |-> a.sms_body],
            NotBuilt, e.response, "unknown", "first")

----------------------------------------------------------------------------
(* The inputs the calls are made with.                                     *)

Lists(S, n) == UNION {[1..k -> S] : k \in 0..n}

Names ==
    {<<"a", ".", "p", "d", "f">>, <<"b", ".", "P", "D", "F">>,
     <<"c", ".", "t", "x", "t">>, <<"x", ".", "z", "z">>,
     <<".", "p", "d", "f">>}

\* A one-page and a two-page document, bytes that are no PDF, and text that
\* is no base64.
Datas ==
    {b64encode(<<PdfHeader, 1>>), b64encode(<<PdfHeader, 2, 3>>),
     b64encode(<<1>>), <<9, 9, 9>>}

Attachments == [name : Names, data : Datas]

SentAttachments ==
    {[name |-> <<"a", ".", "p", "d", "f">>, data |-> b64encode(<<PdfHeader, 1>>)],
     [name |-> <<"b", ".", "P", "D", "F">>, data |-> b64encode(<<1>>)],
     [name |-> <<"x", ".", "z", "z">>, data |-> b64encode(<<PdfHeader, 1>>)]}

Mobile == <<"6", "1", "2", "3", "4", "5", "6", "7", "8">>

Bodies ==
    {Mobile,
     <<"7", "1", "2", "3", "4", "5", "6", "7", "8">>,
     <<"5", "1", "2", "3", "4", "5", "6", "7", "8">>,
     <<"6", "1", "2", "3", "4", "5", "6", "7", "a">>,
     <<"6", "1", "2", " ", "4", "5", "6", "7", "8">>,
     <<"6", "1", "2", "3", "4", "5", "6", "7", "\n">>,
     <<"1", "2", "3", "4", "5", "6", "7", "8", "\n">>,
     <<"1", "2", "3", "4", "5", "6", "7", "8">>,
     <<"1", "2", "3", "4", "5">>,
     <<>>}

PrefixChars == {"+", "3", "6"}

MobileInputs == {p \o b : p \in Lists(PrefixChars, MaxPrefix), b \in Bodies}

Phones ==
    {PyNone, PyStr(Mobile), PyStr(<<"+", "3", "4">> \o Mobile),
     PyStr(<<"6", "1", "2", " ", "3", "4", "5", " ", "6", "7", "8">>),
     PyStr(<<"5", "1", "2", "3", "4", "5", "6", "7", "8">>)}

Texts == {PyNone, Lit("text")}

Responses ==
    {[kind |-> "none"], [kind |-> "error"],
     [kind |-> "fault", actor |-> Lit("Client"), string |-> Lit("Bad login")],
     [kind |-> "fault", actor |-> PyNone, string |-> Lit("No credit")]}
    \cup {[kind |-> "result", ids |-> i, name |-> Lit("m1.eml"),
           data |-> b64encode(<<1>>)] : i \in {<<>>, <<"m1">>, <<"m1", "m2">>}}

Runtimes == {"refcount", "tracing"}

\* The remote side of a call: whether the connection is made and, if it is,
\* what the service answers.
Remotes ==
    {[connected |-> FALSE, response |-> [kind |-> "none"]]}
    \cup {[connected |-> TRUE, response |-> r] : r \in Responses}

\* Between calls there is no call, no outcome; a call that reaches neither
\* the service nor the merge has no environment to speak of.
NoArgs == [none |-> TRUE]
NoOutcome == [kind |-> "none"]
Local == [local |-> TRUE]

\* A call made and ended: what it was, and what it did.
Done(name, a, e, r) ==
    /\ pc' = "done"
    /\ op' = name
    /\ args' = a
    /\ env' = e
    /\ outcome' = r.outcome
    /\ events' = r.events
    /\ buffers' = r.buffers
    /\ UNCHANGED self

Init ==
    /\ self \in {Instance(test) : test \in BOOLEAN}
    /\ pc = "idle"
    /\ op = ""
    /\ args = NoArgs
    /\ env = Local
    /\ outcome = NoOutcome
    /\ events = <<>>
    /\ buffers = NoBuffers

ValidMobile ==
    /\ pc = "idle"
    /\ \E mobile \in MobileInputs \cup {<<"N">>} :
           LET a == IF mobile = <<"N">> THEN PyNone ELSE PyStr(mobile)
           IN Done("valid_mobile", [mobile |-> a], Local,
                   Ended(valid_mobile(a), <<>>, NoBuffers))

BuildAttachments ==
    /\ pc = "idle"
    /\ \E attachments \in Lists(Attachments, MaxAttachments), merge \in BOOLEAN,
          runtime \in Runtimes :
           LET r == build_attachments(attachments, merge, runtime)
           IN Done("build_attachments",
                   [attachments |-> attachments, merge |-> merge],
                   [runtime |-> runtime],
                   Ended(r.outcome, <<>>, r.buffers))

SendAgreement ==
    /\ pc = "idle"
    /\ \E attachments \in Lists(SentAttachments, MaxAttachments),
          accept_method \in {PyNone, PyInt(1)}, accept_phone \in Phones,
          sms_phone \in Phones, sms_body \in Texts,
          remote \in Remotes, runtime \in Runtimes :
           LET a == [to |-> Lit("to@example.org"), subject |-> Lit("subject"),
                     body |-> Lit("body"), attachments |-> attachments,
                     accept_method |-> accept_method,
                     accept_phone |-> accept_phone,
                     sms_phone |-> sms_phone, sms_body |-> sms_body]
               e == remote @@ [runtime |-> runtime]
           IN Done("send_agreement", a, e, send_agreement(self, a, e))

SendAgreementSms ==
    /\ pc = "idle"
    /\ \E attachments \in Lists(SentAttachments, MaxAttachments),
          to \in Phones \cup {PyStr(<<>>)},
          remote \in Remotes, runtime \in Runtimes :
           LET a == [to |-> to, subject |-> Lit("subject"), body |-> Lit("body"),
                     attachments |-> attachments]
               e == remote @@ [runtime |-> runtime]
           IN Done("send_agreement_sms", a, e, send_agreement_sms(self, a, e))

SendMail ==
    /\ pc = "idle"
    /\ \E attachments \in Lists(SentAttachments, MaxAttachments),
          sms_phone \in Phones, sms_body \in Texts,
          remote \in Remotes, runtime \in Runtimes,
          es \in {"valid", "invalid", "NumberParseException"} :
           LET a == [to |-> Lit("to@example.org"), subject |-> Lit("subject"),
                     body |-> Lit("body"), attachments |-> attachments,
                     sms_phone |-> sms_phone, sms_body |-> sms_body]
               e == remote @@ [runtime |-> runtime, es |-> es]
           IN Done("send_mail", a, e, send_mail(self, a, e))

GetMessage ==
    /\ pc = "idle"
    /\ \E remote \in Remotes :
           LET a == [message_id |-> Lit("m1")]
           IN Done("get_message", a, remote, get_message(self, a, remote))

GetMessageCertificate ==
    /\ pc = "idle"
    /\ \E remote \in Remotes, cert_type \in {"general", "contract", "mandate"} :
           LET a == [message_id |-> Lit("m1"), cert_type |-> Lit(cert_type)]
           IN Done("get_message_certificate", a, remote,
                   get_message_certificate(self, a, remote))

SendRegisteredSms ==
    /\ pc = "idle"
    /\ \E sms_phone \in Phones, sms_body \in Texts, remote \in Remotes :
           LET a == [sms_phone |-> sms_phone, sms_body |-> sms_body]
           IN Done("send_registered_sms", a, remote,
                   send_registered_sms(self, a, remote))

\* The caller has the outcome; the instance keeps nothing of the call.
Returned ==
    /\ pc = "done"
    /\ pc' = "idle"
    /\ op' = ""
    /\ args' = NoArgs
    /\ env' = Local
    /\ outcome' = NoOutcome
    /\ events' = <<>>
    /\ buffers' = NoBuffers
    /\ UNCHANGED self

Next ==
    \/ ValidMobile
    \/ BuildAttachments
    \/ SendAgreement
    \/ SendAgreementSms
    \/ SendMail
    \/ GetMessage
    \/ GetMessageCertificate
    \/ SendRegisteredSms
    \/ Returned

Spec == Init /\ [][Next]_vars

----------------------------------------------------------------------------
(* The claims.                                                             *)

Built == pc = "done" /\ op = "build_attachments"

\* The uniform error as the local checks raise it: code 0 and a message.
IsValidationError(o) ==
    /\ o.kind = "raise"
    /\ o.exc.t = "MailCertificadoException"
    /\ o.exc.code = PyInt(0)
    /\ IsStr(o.exc.description)

NotAllPdf(attachments) ==
    \E i \in 1..Len(attachments) : guess_type(attachments[i].name) # PdfType

Unguessable(attachments) ==
    {i \in 1..Len(attachments) : IsNone(guess_type(attachments[i].name))}

\* Whether the text of a string holds the characters of name, in a row.
Mentions(text, name) ==
    \E k \in 1..Len(text.v) :
        /\ k + Len(name) - 1 <= Len(text.v)
        /\ SubSeq(text.v, k, k + Len(name) - 1) = name

MergeMessage == Lit("Merge only allowed if all files are pdfs")

\* C1, as stated: whenever some attachment's inferred type is not
\* application/pdf, build_attachments(list, merge=True) fails with the
\* validation error.
C1_NonPdfMergeFails ==
    (Built /\ args.merge /\ NotAllPdf(args.attachments))
        => IsValidationError(outcome)

\* C1, amended: for a list of more than one attachment, not all of type
\* application/pdf, build_attachments(list, merge=True) fails with the
\* validation error 'Merge only allowed if all files are pdfs' before any
\* temporary file is made, whatever merge=False does on the list.
C1_NonPdfMergeOfSeveralFails ==
    (Built /\ args.merge /\ Len(args.attachments) > 1
           /\ NotAllPdf(args.attachments))
        => /\ IsValidationError(outcome)
           /\ outcome.exc.description = MergeMessage
           /\ buffers = NoBuffers

C1_Witness ==
    /\ Built /\ args.merge /\ Len(args.attachments) > 1
    /\ NotAllPdf(args.attachments)
    /\ outcome.kind = "raise"
    /\ build_attachments(args.attachments, FALSE, env.runtime).outcome.kind
         = "return"

\* C2: for a list of one attachment, merge=True and merge=False end the
\* same way: the same records or the same error, and no temporary file.
C2_MergeOfOneIsNoOp ==
    (Built /\ Len(args.attachments) = 1)
        => /\ outcome = build_attachments(args.attachments, ~args.merge,
                                          env.runtime).outcome
           /\ buffers = NoBuffers

C2_Witness ==
    /\ Built /\ Len(args.attachments) = 1 /\ args.merge
    /\ outcome.kind = "return"
    /\ outcome.value.v[1].type # PdfType

\* C3, as stated: build_attachments returns the full list or fails with the
\* validation error, and if the type of any attachment's name cannot be
\* inferred it fails with an error whose description mentions that name.
C3_FailsNamingTheFile ==
    Built =>
        /\ outcome.kind = "return" \/ IsValidationError(outcome)
        /\ \A i \in Unguessable(args.attachments) :
               /\ IsValidationError(outcome)
               /\ Mentions(outcome.exc.description, args.attachments[i].name)

Merging == args.merge /\ Len(args.attachments) > 1

FirstUnguessable ==
    CHOOSE i \in Unguessable(args.attachments) :
        \A j \in Unguessable(args.attachments) : i <= j

\* C3, amended: build_attachments returns the full normalized list or raises
\* and returns nothing.  Without a merge (merge=False or at most one
\* attachment) it raises only the validation error.  If the type of any
\* attachment's name cannot be inferred it fails with the validation error:
\* 'Cannot guess mime type for <name>' with the name of the first such
\* attachment when there is no merge, 'Merge only allowed if all files are
\* pdfs' when there is.  A merge can also raise the error of the base64
\* decoder or of the PDF reader.
C3_AllOrError ==
    Built =>
        /\ outcome.kind \in {"return", "raise"}
        /\ outcome.kind = "return" =>
               /\ Len(outcome.value.v)
                    = (IF Merging THEN 1 ELSE Len(args.attachments))
               /\ \A i \in 1..Len(outcome.value.v) :
                      DOMAIN outcome.value.v[i] = {"name", "type", "size", "data"}
        /\ outcome.kind = "raise" =>
               \/ IsValidationError(outcome)
               \/ Merging /\ outcome.exc \in {Base64Error, PdfReadError}
        /\ Unguessable(args.attachments) # {} =>
               /\ IsValidationError(outcome)
               /\ outcome.exc.description =
                    (IF Merging THEN MergeMessage
                     ELSE CannotGuess(args.attachments[FirstUnguessable].name))
               /\ ~Merging =>
                    Mentions(outcome.exc.description,
                             args.attachments[FirstUnguessable].name)

C3_Witness ==
    /\ Built /\ ~args.merge /\ Len(args.attachments) = 2
    /\ Unguessable(args.attachments) = {2}
    /\ IsValidationError(outcome)

\* C4: on success the list has one record when the attachments were merged
\* (merge=True and more than one attachment) and one record per attachment
\* otherwise; unmerged, record i has the name and data of attachment i;
\* merged, the record has the name of the first attachment.  An empty list
\* gives an empty list, whatever merge is.
C4_OutputShape ==
    Built =>
        /\ outcome.kind = "return" =>
               /\ Len(outcome.value.v)
                    = (IF Merging THEN 1 ELSE Len(args.attachments))
               /\ ~Merging =>
                      \A i \in 1..Len(args.attachments) :
                          /\ outcome.value.v[i].name = args.attachments[i].name
                          /\ outcome.value.v[i].data = args.attachments[i].data
               /\ Merging => outcome.value.v[1].name = args.attachments[1].name
        /\ args.attachments = <<>> => outcome = Return(PyList(<<>>))

C4_Witness ==
    /\ Built /\ Merging /\ outcome.kind = "return"
    /\ args.attachments[1].name # args.attachments[Len(args.attachments)].name

NineDigitMobile(s) ==
    /\ Len(s) >= 9
    /\ s[Len(s) - 8] \in {"6", "7"}
    /\ \A k \in (Len(s) - 7)..Len(s) : s[k] \in Digits

\* C6: valid_mobile(s) returns True when the last nine characters of s are a
\* 6 or a 7 followed by eight digits, and False for every other string, the
\* strings of fewer than nine characters among them; it raises nothing.
C6_ValidMobile ==
    (pc = "done" /\ op = "valid_mobile" /\ IsStr(args.mobile))
        => outcome = Return(PyBool(NineDigitMobile(args.mobile.v)))

C6_Witness ==
    /\ pc = "done" /\ op = "valid_mobile" /\ IsStr(args.mobile)
    /\ Len(args.mobile.v) > 9
    /\ outcome = Return(PyBool(TRUE))

Sends == {"send_mail", "send_agreement", "send_agreement_sms"}

\* C7: in send_mail, send_agreement and send_agreement_sms no call that ends
\* with a validation error has contacted the remote service, the connection
\* included.
C7_ValidationBeforeRemote ==
    (pc = "done" /\ op \in Sends /\ IsValidationError(outcome))
        => events = <<>>

\* C8: when build_attachments has ended, by returning or by raising, none of
\* the temporary files it made is still open.
C8_BuffersReleased == Built => buffers.open = {}

Checked ==
    {"send_mail", "send_agreement", "send_agreement_sms", "get_message",
     "get_message_certificate", "send_registered_sms"}

Called == Len(events) = 2 /\ events[2].ev = "call"

\* C9: in the operations that check for a missing result, a remote call that
\* gives no result and no fault ends with MailCertificadoException(0,
\* 'Unknown error'), and one that reports a fault ends with code the fault's
\* actor and description the fault's string.
C9_UniformRemoteErrors ==
    (pc = "done" /\ op \in Checked /\ Called) =>
        /\ env.response.kind = "none" =>
               outcome = Raise(MailCertificadoException(PyInt(0),
                                                        Lit("Unknown error")))
        /\ env.response.kind = "fault" =>
               outcome = Raise(MailCertificadoException(env.response.actor,
                                                        env.response.string))

\* C10: send_agreement with accept_method = 1 and accept_phone None or not a
\* valid mobile fails with MailCertificadoException, code 0 and a message,
\* and nothing else, without connecting, building the payload or calling
\* sendAgreementWS.
C10_AcceptPhoneChecked ==
    (/\ pc = "done" /\ op = "send_agreement"
     /\ args.accept_method = PyInt(1)
     /\ \/ IsNone(args.accept_phone)
        \/ ~NineDigitMobile(args.accept_phone.v))
        => /\ IsValidationError(outcome)
           /\ events = <<>>

====
